---- MODULE Spec2Model ----
(***************************************************************************)
(* Lempel-Ziv complexity (neurokit2/complexity/complexity_lempelziv.py).   *)
(*                                                                         *)
(* The module follows one call of complexity_lempelziv(signal, threshold,  *)
(* normalize): the dispatch on signal.ndim, the loop over the channels,    *)
(* and, for each channel, _complexity_lempelziv: the binarization, the     *)
(* Kaspar-Schuster scan (one action per statement group of the while       *)
(* loop), the tail increment and the normalization.                        *)
(*                                                                         *)
(* Numbers.  Samples are small naturals.  A threshold (np.median, np.mean) *)
(* is the rational num/den, den = 0 standing for NaN (the mean or median   *)
(* of an empty array).  A returned complexity is a record with a tag:      *)
(*   "int"     the Python int c                                            *)
(*   "scaled"  the float c * log2(n) / n          (n >= 2)                 *)
(*   "0.0"     the float 0.0   (c / inf,  n = 1)                           *)
(*   "-inf"    the float -inf  (c / -0.0, n = 0)                           *)
(* and np.mean of the per-channel list is num/den ("ratio") or             *)
(* num * log2(n) / den ("scaled-ratio").                                   *)
(***************************************************************************)
EXTENDS Integers, Sequences, FiniteSets, TLC

VARIABLES signal, threshold, normalize, parameters, lzc_values, i, channel,
          p_seq, complexity, n, pointer, current_prefix_len,
          current_substring_len, final_substring_len, lzc, out, pc

vars == <<signal, threshold, normalize, parameters, lzc_values, i, channel,
          p_seq, complexity, n, pointer, current_prefix_len,
          current_substring_len, final_substring_len, lzc, out, pc>>

scan == <<complexity, n, pointer, current_prefix_len,
          current_substring_len, final_substring_len>>

(***************************************************************************)
(* Bounds of the inputs.                                                   *)
(***************************************************************************)
\* samples of a general one-dimensional signal are 0..MaxVal
MaxVal == 3
\* general one-dimensional signals have 0..MaxLen samples
MaxLen == 3
\* two-valued one-dimensional signals have 0..BinLen samples
BinLen == 8
\* a multichannel signal has 1..MaxChannels channels
MaxChannels == 2
\* each channel of a multichannel signal has 1..ChanLen samples
ChanLen == 3

Values == 0..MaxVal
ScenarioValues == {1, 2}
ChannelValues == {0, 1}
Thresholds == {"median", "mean"}

\* s[k] with Python's 0-based index k
At(s, k) == s[k + 1]

RECURSIVE SumSeq(_)
SumSeq(s) == IF s = <<>> THEN 0 ELSE s[1] + SumSeq(Tail(s))

Max(a, b) == IF a >= b THEN a ELSE b

(***************************************************************************)
(* Arrays and data frames.  A one-dimensional array is its sequence of     *)
(* samples; a two-dimensional array or a data frame is a matrix, a         *)
(* sequence of rows.                                                       *)
(***************************************************************************)
Array1(s) == [kind |-> "ndarray", ndim |-> 1, data |-> s]
Array2(m) == [kind |-> "ndarray", ndim |-> 2, data |-> m]
DataFrame(m) == [kind |-> "DataFrame", ndim |-> 2, data |-> m]

Transpose(m) ==
    IF m = <<>> THEN <<>>
    ELSE [c \in 1..Len(m[1]) |-> [r \in 1..Len(m) |-> m[r][c]]]

\* the column labels of a data frame, in order: 0 .. K-1
Columns(df) == IF df.data = <<>> THEN 0 ELSE Len(df.data[1])

\* np.array(df[colname])
Column(df, colname) == [r \in 1..Len(df.data) |-> df.data[r][colname + 1]]

\* utils._sanitize_multichannel: an array of shape channels x samples becomes
\* a data frame with one column per channel; a data frame is kept.
sanitize_multichannel(sig) ==
    IF sig.kind = "ndarray" THEN DataFrame(Transpose(sig.data)) ELSE sig

(***************************************************************************)
(* np.median, np.mean and the comparison value < threshold.                *)
(***************************************************************************)
NpMean(s) == [num |-> SumSeq(s), den |-> Len(s)]

NpMedian(s) ==
    LET sorted == SortSeq(s, LAMBDA a, b : a < b)
        len == Len(s)
        half == len \div 2
    IN  IF len = 0 THEN [num |-> 0, den |-> 0]
        ELSE IF len % 2 = 1 THEN [num |-> sorted[half + 1], den |-> 1]
        ELSE [num |-> sorted[half] + sorted[half + 1], den |-> 2]

\* value < threshold; every comparison with NaN is False
Less(value, thr) == thr.den # 0 /\ value * thr.den < thr.num

Threshold(sig, mode) == IF mode = "median" THEN NpMedian(sig) ELSE NpMean(sig)

\* Variant of the binarizer that tests value <= threshold (ties fall to 0).
complexity_lempelziv_binarize_le(sig, mode) ==
    LET thr == Threshold(sig, mode)
    IN  [index \in 1..Len(sig) |->
            IF Less(sig[index], thr) \/ sig[index] * thr.den = thr.num
            THEN 0 ELSE 1]

\* _complexity_lempelziv_binarize
complexity_lempelziv_binarize(sig, mode) ==
    LET thr == Threshold(sig, mode)
    IN  [index \in 1..Len(sig) |-> IF Less(sig[index], thr) THEN 0 ELSE 1]

(***************************************************************************)
(* Returned numbers.                                                       *)
(***************************************************************************)
None == [tag |-> "None"]
PyInt(c) == [tag |-> "int", c |-> c]

\* _complexity_lempelziv_normalize: complexity / (n / np.log2(n))
complexity_lempelziv_normalize(sequence, c) ==
    LET len == Len(sequence)
    IN  IF len = 0 THEN [tag |-> "-inf"]
        ELSE IF len = 1 THEN [tag |-> "0.0"]
        ELSE [tag |-> "scaled", c |-> c, n |-> len]

\* np.mean(lzc_values) of a non-empty list of per-channel results
MeanOfValues(vals) ==
    LET tag == vals[1].tag
        total == SumSeq([k \in 1..Len(vals) |-> vals[k].c])
    IN  IF tag = "int" THEN [tag |-> "ratio", num |-> total, den |-> Len(vals)]
        ELSE IF tag = "scaled"
        THEN [tag |-> "scaled-ratio", num |-> total,
              den |-> Len(vals) * vals[1].n, n |-> vals[1].n]
        ELSE vals[1]

(***************************************************************************)
(* Inputs.                                                                 *)
(***************************************************************************)
SeqsUpTo(S, len) == UNION {[1..l -> S] : l \in 0..len}

Signals1D == SeqsUpTo(Values, MaxLen) \cup SeqsUpTo(ScenarioValues, BinLen)

ChannelLists ==
    UNION {[1..k -> [1..l -> ChannelValues]] : k \in 1..MaxChannels, l \in 1..ChanLen}

Signals ==
    {Array1(s) : s \in Signals1D}
    \cup {Array2(m) : m \in ChannelLists}
    \cup {DataFrame(Transpose(m)) : m \in ChannelLists}

Init ==
    /\ signal \in Signals
    /\ threshold \in Thresholds
    /\ normalize \in BOOLEAN
    /\ parameters = [threshold |-> threshold, normalize |-> normalize]
    /\ lzc_values = <<>>
    /\ i = 0
    /\ channel = <<>>
    /\ p_seq = <<>>
    /\ complexity = 0
    /\ n = 0
    /\ pointer = 0
    /\ current_prefix_len = 0
    /\ current_substring_len = 0
    /\ final_substring_len = 0
    /\ lzc = None
    /\ out = None
    /\ pc = "start"

(***************************************************************************)
(* complexity_lempelziv: dispatch on signal.ndim and the loop over the     *)
(* channels.                                                               *)
(***************************************************************************)
\* lines 72-76 and 84-86
Entry ==
    /\ pc = "start"
    /\ IF signal.ndim > 1
       THEN /\ signal' = sanitize_multichannel(signal)
            /\ lzc_values' = <<>>
            /\ i' = 0
            /\ pc' = "for"
            /\ UNCHANGED channel
       ELSE /\ channel' = signal.data
            /\ pc' = "binarize"
            /\ UNCHANGED <<signal, lzc_values, i>>
    /\ UNCHANGED <<threshold, normalize, parameters, p_seq, scan, lzc, out>>

\* lines 77-79: the next column of the data frame, as an array
ForChannel ==
    /\ pc = "for"
    /\ i < Columns(signal)
    /\ channel' = Column(signal, i)
    /\ pc' = "binarize"
    /\ UNCHANGED <<signal, threshold, normalize, parameters, lzc_values, i,
                   p_seq, scan, lzc, out>>

\* lines 81-82 and 88: the columns are exhausted
ForEnd ==
    /\ pc = "for"
    /\ i >= Columns(signal)
    /\ parameters' = [threshold |-> parameters.threshold,
                      normalize |-> parameters.normalize,
                      values |-> lzc_values]
    /\ out' = MeanOfValues(lzc_values)
    /\ pc' = "done"
    /\ UNCHANGED <<signal, threshold, normalize, lzc_values, i, channel,
                   p_seq, scan, lzc>>

\* Variant of Collect that puts the newest result first.
Collect_prepend ==
    /\ pc = "returned"
    /\ signal.ndim > 1
    /\ lzc_values' = <<lzc>> \o lzc_values
    /\ i' = i + 1
    /\ pc' = "for"
    /\ UNCHANGED <<signal, threshold, normalize, parameters, channel, p_seq,
                   scan, lzc, out>>

\* lines 79-80: the call returns into the loop over the channels
Collect ==
    /\ pc = "returned"
    /\ signal.ndim > 1
    /\ lzc_values' = Append(lzc_values, lzc)
    /\ i' = i + 1
    /\ pc' = "for"
    /\ UNCHANGED <<signal, threshold, normalize, parameters, channel, p_seq,
                   scan, lzc, out>>

\* lines 86 and 88: the call returns for a single time series
Single ==
    /\ pc = "returned"
    /\ signal.ndim = 1
    /\ out' = lzc
    /\ pc' = "done"
    /\ UNCHANGED <<signal, threshold, normalize, parameters, lzc_values, i,
                   channel, p_seq, scan, lzc>>

(***************************************************************************)
(* _complexity_lempelziv                                                   *)
(***************************************************************************)
\* line 94: signal.copy() is filled, the signal itself is not written
Binarize ==
    /\ pc = "binarize"
    /\ p_seq' = complexity_lempelziv_binarize(channel, threshold)
    /\ pc' = "preset"
    /\ UNCHANGED <<signal, threshold, normalize, parameters, lzc_values, i,
                   channel, scan, lzc, out>>

\* lines 97-102
Preset ==
    /\ pc = "preset"
    /\ complexity' = 1
    /\ n' = Len(p_seq)
    /\ pointer' = 0
    /\ current_prefix_len' = 1
    /\ current_substring_len' = 1
    /\ final_substring_len' = 1
    /\ pc' = "while"
    /\ UNCHANGED <<signal, threshold, normalize, parameters, lzc_values, i,
                   channel, p_seq, lzc, out>>

\* Variant of the loop condition that admits one more iteration.
LoopCondition_offbyone ==
    current_prefix_len + current_substring_len <= n + 1

\* line 105: the loop condition
LoopCondition ==
    current_prefix_len + current_substring_len <= n

\* line 105: the loop condition is evaluated
WhileTest ==
    /\ pc = "while"
    /\ pc' = IF LoopCondition THEN "compare" ELSE "tail"
    /\ UNCHANGED <<signal, threshold, normalize, parameters, lzc_values, i,
                   channel, p_seq, scan, lzc, out>>

\* line 106: the two elements compared
Equal ==
    At(p_seq, pointer + current_substring_len - 1)
        = At(p_seq, current_prefix_len + current_substring_len - 1)

\* lines 106-107
Match ==
    /\ pc = "compare"
    /\ Equal
    /\ current_substring_len' = current_substring_len + 1
    /\ pc' = "while"
    /\ UNCHANGED <<signal, threshold, normalize, parameters, lzc_values, i,
                   channel, p_seq, complexity, n, pointer, current_prefix_len,
                   final_substring_len, lzc, out>>

\* Variant of Mismatch that leaves the pointer where it is.
Mismatch_stuck ==
    /\ pc = "compare"
    /\ ~Equal
    /\ final_substring_len' = Max(current_substring_len, final_substring_len)
    /\ pc' = "reset"
    /\ UNCHANGED <<signal, threshold, normalize, parameters, lzc_values, i,
                   channel, p_seq, complexity, n, pointer, current_prefix_len,
                   current_substring_len, lzc, out>>

\* lines 108-110
Mismatch ==
    /\ pc = "compare"
    /\ ~Equal
    /\ final_substring_len' = Max(current_substring_len, final_substring_len)
    /\ pointer' = pointer + 1
    /\ pc' = "reset"
    /\ UNCHANGED <<signal, threshold, normalize, parameters, lzc_values, i,
                   channel, p_seq, complexity, n, current_prefix_len,
                   current_substring_len, lzc, out>>

\* Variant of the test of line 111 that fires one position late.
PrefixExhausted_late == pointer > current_prefix_len

\* line 111: the pointer has tried every start inside the prefix
PrefixExhausted == pointer = current_prefix_len

\* Variant of NewPhrase that does not count the phrase.
NewPhrase_nocount ==
    /\ pc = "reset"
    /\ PrefixExhausted
    /\ current_prefix_len' = current_prefix_len + final_substring_len
    /\ current_substring_len' = 1
    /\ pointer' = 0
    /\ final_substring_len' = 1
    /\ pc' = "while"
    /\ UNCHANGED <<signal, threshold, normalize, parameters, lzc_values, i,
                   channel, p_seq, complexity, n, lzc, out>>

\* lines 111-116
NewPhrase ==
    /\ pc = "reset"
    /\ PrefixExhausted
    /\ complexity' = complexity + 1
    /\ current_prefix_len' = current_prefix_len + final_substring_len
    /\ current_substring_len' = 1
    /\ pointer' = 0
    /\ final_substring_len' = 1
    /\ pc' = "while"
    /\ UNCHANGED <<signal, threshold, normalize, parameters, lzc_values, i,
                   channel, p_seq, n, lzc, out>>

\* lines 117-118
Retry ==
    /\ pc = "reset"
    /\ ~PrefixExhausted
    /\ current_substring_len' = 1
    /\ pc' = "while"
    /\ UNCHANGED <<signal, threshold, normalize, parameters, lzc_values, i,
                   channel, p_seq, complexity, n, pointer, current_prefix_len,
                   final_substring_len, lzc, out>>

\* Variant of TailPhrase that never counts the unfinished match.
TailPhrase_skip ==
    /\ pc = "tail"
    /\ pc' = "normalize"
    /\ UNCHANGED <<signal, threshold, normalize, parameters, lzc_values, i,
                   channel, p_seq, scan, lzc, out>>

\* lines 120-121
TailPhrase ==
    /\ pc = "tail"
    /\ complexity' = IF current_substring_len # 1
                     THEN complexity + 1 ELSE complexity
    /\ pc' = "normalize"
    /\ UNCHANGED <<signal, threshold, normalize, parameters, lzc_values, i,
                   channel, p_seq, n, pointer, current_prefix_len,
                   current_substring_len, final_substring_len, lzc, out>>

\* lines 123-126
Return ==
    /\ pc = "normalize"
    /\ lzc' = IF normalize
              THEN complexity_lempelziv_normalize(p_seq, complexity)
              ELSE PyInt(complexity)
    /\ pc' = "returned"
    /\ UNCHANGED <<signal, threshold, normalize, parameters, lzc_values, i,
                   channel, p_seq, scan, out>>

Next ==
    \/ Entry
    \/ ForChannel
    \/ ForEnd
    \/ Collect
    \/ Single
    \/ Binarize
    \/ Preset
    \/ WhileTest
    \/ Match
    \/ Mismatch
    \/ NewPhrase
    \/ Retry
    \/ TailPhrase
    \/ Return

Spec == Init /\ [][Next]_vars

\* the interpreter runs the call to its end: no step waits on anything
FairSpec == Spec /\ WF_vars(Next)

(***************************************************************************)
(* _complexity_lempelziv as a function of its arguments: the while loop    *)
(* of lines 105-118 unrolled by recursion, then lines 120-126.             *)
(***************************************************************************)
RECURSIVE ScanLoop(_, _, _, _, _, _)
ScanLoop(p, c, ptr, prefix, sub, final) ==
    IF prefix + sub <= Len(p)
    THEN IF At(p, ptr + sub - 1) = At(p, prefix + sub - 1)
         THEN ScanLoop(p, c, ptr, prefix, sub + 1, final)
         ELSE IF ptr + 1 = prefix
              THEN ScanLoop(p, c + 1, 0, prefix + Max(sub, final), 1, 1)
              ELSE ScanLoop(p, c, ptr + 1, prefix, 1, Max(sub, final))
    ELSE IF sub # 1 THEN c + 1 ELSE c

complexity_lempelziv_single(sig, mode, norm) ==
    LET p == complexity_lempelziv_binarize(sig, mode)
        c == ScanLoop(p, 1, 0, 1, 1, 1)
    IN  IF norm THEN complexity_lempelziv_normalize(p, c) ELSE PyInt(c)

(***************************************************************************)
(* Vocabulary of the properties.                                           *)
(***************************************************************************)
IsConstant(s) == \A a, b \in 1..Len(s) : s[a] = s[b]

Alternating8 == <<1, 2, 1, 2, 1, 2, 1, 2>>

\* the positions of _complexity_lempelziv at which the scan state is bound
ScanPcs == {"while", "compare", "reset", "tail", "normalize", "returned"}

OtherMode(mode) == IF mode = "median" THEN "mean" ELSE "median"

SameThreshold(a, b) == a.num * b.den = b.num * a.den /\ (a.den = 0 <=> b.den = 0)

\* a <= value < b or b <= value < a
Between(value, a, b) ==
    \/ ~Less(value, a) /\ Less(value, b)
    \/ ~Less(value, b) /\ Less(value, a)

(***************************************************************************)
(* C1.  Constant sequence, n >= 2, normalize = False.                      *)
(***************************************************************************)
\* C1 (as stated): for every constant sequence of length n >= 2, under either
\* threshold mode, the raw complexity returned by _complexity_lempelziv with
\* normalize = False equals 1.
C1_ConstantRawIsOne ==
    (pc = "returned" /\ ~normalize /\ Len(channel) >= 2 /\ IsConstant(channel))
        => lzc = PyInt(1)

\* C1 (amended): for every constant sequence of length n >= 2, under either
\* threshold mode, the raw complexity returned by _complexity_lempelziv with
\* normalize = False equals 2: the first symbol, then the unfinished match
\* counted after the loop.
C1_ConstantRawIsTwo ==
    (pc = "returned" /\ ~normalize /\ Len(channel) >= 2 /\ IsConstant(channel))
        => lzc = PyInt(2)

C1_Witness ==
    /\ pc = "returned"
    /\ ~normalize
    /\ Len(channel) >= 3
    /\ IsConstant(channel)
    /\ current_substring_len = Len(channel)
    /\ lzc = PyInt(2)

(***************************************************************************)
(* C2.  The scenario [1,2,1,2,1,2,1,2] with threshold "median".            *)
(***************************************************************************)
\* C2 (as stated): for [1,2,1,2,1,2,1,2] with threshold "median" the binary
\* sequence is [0,1,0,1,0,1,0,1] and the raw complexity returned is 4.
C2_AlternatingRawIsFour ==
    (pc = "returned" /\ ~normalize /\ threshold = "median"
                     /\ channel = Alternating8)
        => /\ p_seq = <<0, 1, 0, 1, 0, 1, 0, 1>>
           /\ lzc = PyInt(4)

\* C2 (amended): for [1,2,1,2,1,2,1,2] with threshold "median" the binary
\* sequence is [0,1,0,1,0,1,0,1] and the raw complexity returned is 3
\* (phrases 0, 1, 010101).
C2_AlternatingRawIsThree ==
    (pc = "returned" /\ ~normalize /\ threshold = "median"
                     /\ channel = Alternating8)
        => /\ p_seq = <<0, 1, 0, 1, 0, 1, 0, 1>>
           /\ lzc = PyInt(3)

C2_Witness ==
    /\ pc = "returned"
    /\ ~normalize
    /\ threshold = "median"
    /\ channel = Alternating8
    /\ current_prefix_len = 2
    /\ current_substring_len = 7

(***************************************************************************)
(* C3.  Multichannel input.                                                *)
(***************************************************************************)
\* C3: for a multichannel input, parameters['values'] holds, in channel order,
\* the result of _complexity_lempelziv on each channel alone, and the value
\* returned is the arithmetic mean of that list; the inputs range over every
\* ordering of the channels.
C3_PerChannelValuesAndMean ==
    (pc = "done" /\ signal.ndim > 1) =>
        LET K == Columns(signal)
            L == Len(signal.data)
            expected == [k \in 1..K |->
                complexity_lempelziv_single(Column(signal, k - 1),
                                            threshold, normalize)]
            total == SumSeq([k \in 1..K |-> ScanLoop(
                complexity_lempelziv_binarize(Column(signal, k - 1), threshold),
                1, 0, 1, 1, 1)])
        IN  /\ DOMAIN parameters = {"threshold", "normalize", "values"}
            /\ parameters.values = expected
            /\ ~normalize => out = [tag |-> "ratio", num |-> total, den |-> K]
            /\ normalize /\ L >= 2 =>
                   out = [tag |-> "scaled-ratio", num |-> total,
                          den |-> K * L, n |-> L]
            /\ normalize /\ L = 1 => out = [tag |-> "0.0"]

C3_Witness ==
    /\ pc = "done"
    /\ signal.ndim > 1
    /\ Len(parameters.values) >= 2
    /\ parameters.values[1] # parameters.values[2]
    /\ out.tag \in {"ratio", "scaled-ratio"}

(***************************************************************************)
(* C4, C5.  Boundary lengths.                                              *)
(***************************************************************************)
\* C4: a sequence of length 1 processed with normalize = True never makes
\* _complexity_lempelziv return a value (numeric, inf, NaN or 0): the call
\* ends in an error instead.
C4_LengthOneNormalizeNeverReturns ==
    ~(pc = "returned" /\ normalize /\ Len(channel) = 1)

\* C5: an empty binary sequence is rejected before the scan: the loop
\* condition is never evaluated for it and no complexity is returned.
C5_EmptyNeverScannedNorReturned ==
    pc \in ScanPcs => Len(p_seq) # 0

C7_DifferentThresholdsDiffer ==
    pc = "preset" =>
        (~SameThreshold(NpMean(channel), NpMedian(channel))
            => p_seq # complexity_lempelziv_binarize(channel, OtherMode(threshold)))

\* C7 (amended): binarizing with "mean" and with "median" yields the same
\* binary sequence exactly when no sample v has
\* min(mean, median) <= v < max(mean, median); so equal mean and median give
\* the same binary sequence, and different ones need not give different ones.
C7_SameIffNoSampleBetween ==
    pc = "preset" =>
        LET mean == NpMean(channel)
            median == NpMedian(channel)
            other == complexity_lempelziv_binarize(channel, OtherMode(threshold))
        IN  /\ (p_seq = other) <=>
                   ~\E k \in 1..Len(channel) : Between(channel[k], mean, median)
            /\ SameThreshold(mean, median) => p_seq = other

C7_Witness ==
    /\ pc = "preset"
    /\ ~SameThreshold(NpMean(channel), NpMedian(channel))
    /\ p_seq = complexity_lempelziv_binarize(channel, OtherMode(threshold))
    /\ \E k \in 1..Len(p_seq) : p_seq[k] = 0

(***************************************************************************)
(* C8, C9, C10.  The scan.                                                 *)
(***************************************************************************)
\* C8: pointer < prefix length at every evaluation of the loop condition and
\* at every comparison; pointer equals the prefix length only inside the
\* mismatch branch, between pointer += 1 and the reset; pointer never exceeds
\* the prefix length.
C8_PointerBelowPrefix ==
    pc \in ScanPcs =>
        /\ pointer <= current_prefix_len
        /\ pc \in {"while", "compare"} => pointer < current_prefix_len
        /\ pointer = current_prefix_len => pc = "reset"

C8_Witness ==
    /\ pc = "reset"
    /\ pointer = current_prefix_len
    /\ current_prefix_len >= 3

\* C9: the scan loop terminates: from every evaluation of the loop condition
\* the scan reaches the loop's exit, where prefix length + substring length > n.
C9_ScanTerminates ==
    (pc = "while") ~> (pc = "tail" /\ current_prefix_len + current_substring_len > n)

C9_Witness ==
    /\ pc = "tail"
    /\ n >= 4
    /\ complexity >= 3
    /\ current_prefix_len + current_substring_len > n

\* C10: wherever the loop body runs, both indices read, pointer + substring
\* length - 1 and prefix length + substring length - 1, lie in 0..n-1, n is
\* the length of the binary sequence, and the first index is strictly smaller
\* than the second.
C10_ReadsInsideSequence ==
    pc = "compare" =>
        LET first == pointer + current_substring_len - 1
            second == current_prefix_len + current_substring_len - 1
        IN  /\ n = Len(p_seq)
            /\ first \in 0..(n - 1)
            /\ second \in 0..(n - 1)
            /\ first < second

C10_Witness ==
    /\ pc = "compare"
    /\ n >= 3
    /\ current_prefix_len + current_substring_len - 1 = n - 1
    /\ pointer >= 1

====
